---- MODULE Spec2Model ----
(***************************************************************************)
(* The Xcode project maintenance scripts of document-ai-swift:             *)
(*   scripts/add_files_to_xcode.py       (text splice of new entries)      *)
(*   scripts/auto_add_files.py           (resolve untracked files, add)    *)
(*   scripts/fix_xcode_references.py     (quoted path rewrite)             *)
(*   scripts/reorganize_xcode_project.py (whole-line path rewrite)         *)
(*   scripts/update_xcode_project.py     (report of untracked files)       *)
(*                                                                         *)
(* The manifest (project.pbxproj) is a sequence of tokens.  One token is   *)
(* one piece of text the scripts search for or write: a section marker    *)
(* comment, the text "files = (", the text ");", the whitespace in front   *)
(* of it, or one entry line.  str.find(x) is the index of the first token  *)
(* holding x and a slice content[:pos] + new + content[pos:] is an         *)
(* insertion in front of the token at pos.                                 *)
(*                                                                         *)
(* A path is the sequence of its components, so that os.path.basename is   *)
(* the last component.  Identifiers (24 hex digits in the code) are the    *)
(* naturals 1..NumIds.                                                     *)
(***************************************************************************)
EXTENDS Naturals, Sequences, FiniteSets

VARIABLES
    disk,      \* text of documentAI.xcodeproj/project.pbxproj
    backup,    \* project.pbxproj.backup: [exists, text]
    fs,        \* relative paths of the .swift files under documentAI/
    pc,        \* position of the running script, "idle" between runs
    mem,       \* local variables of the running script
    last,      \* the latest finished run: tool, inputs, exit code
    prev,      \* the run finished before it
    pre,       \* manifest text when the latest run started
    preBackup, \* backup file when the latest run started
    inserted,  \* indices of disk holding the entries the latest run inserted
    runs       \* number of runs started

vars == <<disk, backup, fs, pc, mem, last, prev, pre, preBackup, inserted, runs>>

(* ------------------------------- bounds -------------------------------- *)

\* Identifier space of the model: uuid4().hex[:24] draws one of these.
NumIds == 2
\* Script runs in one behaviour.
MaxRuns == 2
\* Longest manifest a run is started on.
MaxLen == 13

Ids == 1..NumIds

(* ------------------------------- tokens -------------------------------- *)

Markers == {"BeginBF", "EndBF", "BeginFR", "EndFR", "BeginSrc", "EndSrc"}

\* A token that is a fixed text: a marker, "FilesOpen" (files = (), "Close"
\* ( ); ), "WS" (the tabs in front of ");").
Tok(k) == [k |-> k]

\* <id> /* <name> in Sources */ = {isa = PBXBuildFile; fileRef = <ref> /* <name> */; };
BuildFileEntry(id, ref, name) == [k |-> "BF", id |-> id, ref |-> ref, name |-> name]

\* <id> /* <name> */ = {isa = PBXFileReference; [fileEncoding = 4;]
\*   lastKnownFileType = sourcecode.swift; path = <path>; sourceTree = "<group>"; };
\* q: the path value stands between double quotes; ind: what the line is
\* indented with.
FileRefEntry(id, name, path, q, enc, ind) ==
    [k |-> "FR", id |-> id, name |-> name, path |-> path, q |-> q,
     fileEncoding |-> enc, ind |-> ind]

\* <id> /* <name> in Sources */,
SourceEntry(id, name) == [k |-> "Mem", id |-> id, name |-> name]

\* A record of another kind that carries a path field (a PBXGroup).
GroupEntry(id, name, path, q) ==
    [k |-> "Grp", id |-> id, name |-> name, path |-> path, q |-> q]

(* ------------------------------- helpers ------------------------------- *)

\* os.path.basename
basename(p) == IF Len(p) = 0 THEN "" ELSE p[Len(p)]

\* str.find(kind, from): the first index >= from holding kind, 0 for -1.
Find(content, kind, from) ==
    LET hits == {i \in DOMAIN content : i >= from /\ content[i].k = kind}
    IN IF from = 0 \/ hits = {} THEN 0
       ELSE CHOOSE i \in hits : \A j \in hits : i <= j

\* A slice that would lose the token at pos.
InsertOver(content, pos, entries) ==
    SubSeq(content, 1, pos - 1) \o entries \o SubSeq(content, pos + 1, Len(content))

\* content[:pos] + ''.join(entries) + content[pos:]
Insert(content, pos, entries) ==
    SubSeq(content, 1, pos - 1) \o entries \o SubSeq(content, pos, Len(content))

\* Indices of earlier insertions after n more tokens went in at pos.
Shift(P, pos, n) ==
    {IF p >= pos THEN p + n ELSE p : p \in P} \cup {pos + i - 1 : i \in 1..n}

RECURSIVE Keys(_)
\* Keys of a dict filled in list order: first occurrence of each file.
Keys(files) ==
    IF Len(files) = 0 THEN <<>>
    ELSE LET front == Keys(SubSeq(files, 1, Len(files) - 1))
             f == files[Len(files)]
         IN IF \E i \in DOMAIN front : front[i] = f THEN front ELSE Append(front, f)

\* Index of the last occurrence of f in files (a dict keeps the last value).
LastIndex(files, f) ==
    CHOOSE i \in DOMAIN files : files[i] = f /\ \A j \in DOMAIN files : files[j] = f => j <= i

(* --------------------------- the file universe -------------------------- *)

\* files_to_add of add_files_to_xcode.py, lines 103-106.
PDFDocumentAcroForm == <<"documentAI", "Extensions", "PDFDocument+AcroForm.swift">>
QuickLookPDFView == <<"documentAI", "Features", "DocumentEditor", "QuickLookPDFView.swift">>
\* A file the manifest already tracks.
ModelsFile == <<"documentAI", "Core", "Models", "Models.swift">>

Files == {PDFDocumentAcroForm, QuickLookPDFView}

\* The files_to_add lists: every list of these files that names no file twice.
FileLists ==
    {l \in UNION {[1..n -> Files] : n \in 0..Cardinality(Files)} :
        \A i, j \in DOMAIN l : l[i] = l[j] => i = j}

\* B1000011, the identifier of Models.swift's file reference, is 1; the
\* other records of the manifests the model starts from follow it.
ModelsRefId == 1
ModelsBuildId == ModelsRefId + 1
GroupId == ModelsRefId + 2

ModelsRef == FileRefEntry(ModelsRefId, "Models.swift", <<"Models.swift">>, TRUE, 4, "tab")
ModelsBuild == BuildFileEntry(ModelsBuildId, ModelsRefId, "Models.swift")
ModelsSource == SourceEntry(ModelsBuildId, "Models.swift")
\* A group whose path text is the same as the file reference's.
ModelsGroup == GroupEntry(GroupId, "Models.swift", <<"Models.swift">>, TRUE)

FilesArray(entries) == <<Tok("FilesOpen")>> \o entries \o <<Tok("WS"), Tok("Close")>>

Section(b, entries, e) == <<Tok(b)>> \o entries \o <<Tok(e)>>

\* The three sections with no entries.
ManifestEmpty ==
    Section("BeginBF", <<>>, "EndBF") \o Section("BeginFR", <<>>, "EndFR")
        \o Section("BeginSrc", FilesArray(<<>>), "EndSrc")

\* Models.swift tracked: file reference, build file, membership.
ManifestModels ==
    Section("BeginBF", <<ModelsBuild>>, "EndBF")
        \o Section("BeginFR", <<ModelsRef>>, "EndFR")
        \o Section("BeginSrc", FilesArray(<<ModelsSource>>), "EndSrc")

\* The same, and a group record carrying the same quoted path text.
ManifestGroup ==
    Section("BeginBF", <<ModelsBuild>>, "EndBF")
        \o Section("BeginFR", <<ModelsRef>>, "EndFR") \o <<ModelsGroup>>
        \o Section("BeginSrc", FilesArray(<<ModelsSource>>), "EndSrc")

\* The "Begin PBXFileReference section" marker is missing.
ManifestNoBeginFR ==
    Section("BeginBF", <<ModelsBuild>>, "EndBF") \o <<ModelsRef, Tok("EndFR")>>
        \o Section("BeginSrc", FilesArray(<<ModelsSource>>), "EndSrc")

\* The PBXBuildFile end marker stands in front of its begin marker.
ManifestEndBeforeBegin ==
    <<Tok("EndBF"), Tok("BeginBF"), ModelsBuild>>
        \o Section("BeginFR", <<ModelsRef>>, "EndFR")
        \o Section("BeginSrc", FilesArray(<<ModelsSource>>), "EndSrc")

\* The sources section holds no files array; a later list does.
ManifestNoPhase ==
    Section("BeginBF", <<>>, "EndBF") \o Section("BeginFR", <<>>, "EndFR")
        \o Section("BeginSrc", <<>>, "EndSrc") \o FilesArray(<<>>)

\* No "files = (" anywhere behind the sources begin marker.
ManifestNoFilesArray ==
    Section("BeginBF", <<>>, "EndBF") \o Section("BeginFR", <<>>, "EndFR")
        \o Section("BeginSrc", <<>>, "EndSrc")

\* Models.swift tracked the way reorganize_xcode_project.py leaves it: the
\* display name is the base name, the path holds the directories.
ManifestReorganized ==
    Section("BeginBF", <<ModelsBuild>>, "EndBF")
        \o Section("BeginFR",
                   <<FileRefEntry(ModelsRefId, "Models.swift",
                                  <<"Core", "Models", "Models.swift">>, FALSE, 0, "space")>>,
                   "EndFR")
        \o Section("BeginSrc", FilesArray(<<ModelsSource>>), "EndSrc")

Manifests ==
    {ManifestEmpty, ManifestModels, ManifestGroup, ManifestNoBeginFR,
     ManifestEndBeforeBegin, ManifestNoPhase, ManifestNoFilesArray,
     ManifestReorganized}

\* Enumerations of documentAI/ by os.walk.
FsLists == {<<>>, <<ModelsFile>>, <<ModelsFile, QuickLookPDFView>>, <<PDFDocumentAcroForm>>}

(* ------------------------ add_files_to_xcode.py ------------------------- *)

\* file_refs, lines 17-29: one record per key, holding the identifiers drawn
\* in the last iteration for that key.  uu[i] is the pair drawn in iteration i.
file_refs(files, uu) ==
    LET keys == Keys(files)
    IN [i \in 1..Len(keys) |->
           [file_path |-> keys[i],
            ref_uuid |-> uu[LastIndex(files, keys[i])][1],
            build_uuid |-> uu[LastIndex(files, keys[i])][2],
            name |-> basename(keys[i])]]

\* Lines 39-43.
build_file_entries(refs) ==
    [i \in 1..Len(refs) |-> BuildFileEntry(refs[i].build_uuid, refs[i].ref_uuid, refs[i].name)]

\* Lines 57-62: path = name, unquoted.
file_ref_entries(refs) ==
    [i \in 1..Len(refs) |->
        FileRefEntry(refs[i].ref_uuid, refs[i].name, <<refs[i].name>>, FALSE, 0, "tab")]

\* Lines 84-88.
source_entries(refs) ==
    [i \in 1..Len(refs) |-> SourceEntry(refs[i].build_uuid, refs[i].name)]

\* add_files_to_pbxproj, lines 13-92, on the text read: ok is the return value,
\* content the text it would write, ins the indices of the entries it spliced in.
add_files_to_pbxproj(content, files, uu) ==
    LET refs == file_refs(files, uu)
        n == Len(refs)
        fail == [ok |-> FALSE, content |-> content, ins |-> {}, refs |-> refs]
        bfStart == Find(content, "BeginBF", 1)
        bfEnd == Find(content, "EndBF", 1)
        c1 == Insert(content, bfEnd, build_file_entries(refs))
        ins1 == Shift({}, bfEnd, n)
        frStart == Find(c1, "BeginFR", 1)
        frEnd == Find(c1, "EndFR", 1)
        c2 == Insert(c1, frEnd, file_ref_entries(refs))
        ins2 == Shift(ins1, frEnd, n)
        srcStart == Find(c2, "BeginSrc", 1)
        srcEnd == Find(c2, "EndSrc", 1)
        filesStart == Find(c2, "FilesOpen", srcStart)
        filesEnd == Find(c2, "Close", filesStart)
        c3 == Insert(c2, filesEnd, source_entries(refs))
        ins3 == Shift(ins2, filesEnd, n)
    IN IF bfStart = 0 \/ bfEnd = 0 THEN fail
       ELSE IF frStart = 0 \/ frEnd = 0 THEN fail
       ELSE IF srcStart = 0 \/ srcEnd = 0 THEN fail
       ELSE IF filesStart = 0 \/ filesEnd = 0 THEN fail
       ELSE [ok |-> TRUE, content |-> c3, ins |-> ins3, refs |-> refs]

(* ------------------------------ run records ---------------------------- *)

NoRun == [tool |-> "none", files |-> <<>>, refs |-> <<>>, done |-> TRUE, exit |-> 0]

Started(tool) == [tool |-> tool, files |-> <<>>, refs |-> <<>>, done |-> FALSE, exit |-> 0]

Finished(tool, files, refs, exit) ==
    [tool |-> tool, files |-> files, refs |-> refs, done |-> TRUE, exit |-> exit]

NoMem == [content |-> <<>>]

NoBackup == [exists |-> FALSE, text |-> <<>>]

CanStart == pc = "idle" /\ runs < MaxRuns /\ Len(disk) <= MaxLen

\* What every script start records about the run.
Begin ==
    /\ CanStart
    /\ prev' = last
    /\ pre' = disk
    /\ preBackup' = backup
    /\ runs' = runs + 1

\* One run of add_files_to_xcode.py: lines 100-117.  The file is written once,
\* at lines 95-96, when every section was found; no backup is made.
AddFiles ==
    /\ Begin
    /\ \E files \in FileLists : \E uu \in [DOMAIN files -> Ids \X Ids] :
          LET r == add_files_to_pbxproj(disk, files, uu)
          IN /\ disk' = IF r.ok THEN r.content ELSE disk
             /\ inserted' = r.ins
             /\ last' = Finished("add", files, IF r.ok THEN r.refs ELSE <<>>,
                                 IF r.ok THEN 0 ELSE 1)
    /\ UNCHANGED <<backup, fs, pc, mem>>

(* ----------------------- fix_xcode_references.py ------------------------ *)

\* Lines 11-28, the entries whose file the model knows.
FILE_MAPPINGS ==
    <<[old |-> "Models.swift", new |-> <<"Core", "Models", "Models.swift">>],
      [old |-> "Theme.swift", new |-> <<"UI", "Theme", "Theme.swift">>]>>

\* pattern in content, lines 49 and 52: some token holds path = "<old>";
pattern_in(content, old) ==
    \E i \in DOMAIN content :
        content[i].k \in {"FR", "Grp"} /\ content[i].q /\ content[i].path = <<old>>

\* content.replace(pattern, replacement), line 53: every occurrence, whatever
\* record holds it.
replace(content, old, new) ==
    [i \in DOMAIN content |->
        IF content[i].k \in {"FR", "Grp"} /\ content[i].q /\ content[i].path = <<old>>
        THEN [content[i] EXCEPT !.path = new]
        ELSE content[i]]

RECURSIVE fix_paths(_, _)
\* The loop of lines 47-55 over the first k mappings.
fix_paths(content, k) ==
    IF k = 0 THEN [content |-> content, changes_made |-> 0]
    ELSE LET r == fix_paths(content, k - 1)
             m == FILE_MAPPINGS[k]
         IN IF pattern_in(r.content, m.old)
            THEN [content |-> replace(r.content, m.old, m.new),
                  changes_made |-> r.changes_made + 1]
            ELSE r

\* fix_pbxproj, lines 30-65: read, rewrite in memory, return when nothing
\* changed (57-59), else write the backup (62-65), overwriting any earlier one.
Fix ==
    /\ Begin
    /\ inserted' = {}
    /\ LET r == fix_paths(disk, Len(FILE_MAPPINGS))
       IN IF r.changes_made = 0
          THEN /\ last' = Finished("fix", <<>>, <<>>, 0)
               /\ UNCHANGED <<backup, pc, mem>>
          ELSE /\ last' = Started("fix")
               /\ backup' = [exists |-> TRUE, text |-> disk]
               /\ pc' = "fix_write"
               /\ mem' = [content |-> r.content]
    /\ UNCHANGED <<disk, fs>>

\* fix_pbxproj, lines 67-74.
FixWrite ==
    /\ pc = "fix_write"
    /\ disk' = mem.content
    /\ pc' = "idle"
    /\ mem' = NoMem
    /\ last' = Finished("fix", <<>>, <<>>, 0)
    /\ UNCHANGED <<backup, fs, prev, pre, preBackup, inserted, runs>>

(* --------------------- reorganize_xcode_project.py ---------------------- *)

\* Lines 30-47: key "<id> /* <name> */" and the path of its replacement line.
updates ==
    <<[id |-> ModelsRefId, name |-> "Models.swift",
       path |-> <<"Core", "Models", "Models.swift">>]>>

\* key in line and 'PBXFileReference' in line, line 55.
key_in_line(u, line) == line.k = "FR" /\ line.id = u.id /\ line.name = u.name

\* Lines 52-65 for one line: the first key found replaces the whole line by
\* ' ' * indent + replacement + '\n'.
new_line(line) ==
    IF \E j \in DOMAIN updates : key_in_line(updates[j], line)
    THEN LET j == CHOOSE j \in DOMAIN updates :
                     /\ key_in_line(updates[j], line)
                     /\ \A h \in DOMAIN updates : key_in_line(updates[h], line) => j <= h
         IN FileRefEntry(updates[j].id, updates[j].name, updates[j].path, FALSE, 0,
                         IF line.ind = "" THEN "" ELSE "space")
    ELSE line

new_lines(lines) == [i \in DOMAIN lines |-> new_line(lines[i])]

\* reorganize_pbxproj, lines 10-27: read the lines and write the backup.
Reorganize ==
    /\ Begin
    /\ inserted' = {}
    /\ last' = Started("reorganize")
    /\ backup' = [exists |-> TRUE, text |-> disk]
    /\ pc' = "reorganize_write"
    /\ mem' = [content |-> disk]
    /\ UNCHANGED <<disk, fs>>

\* reorganize_pbxproj, lines 49-72: rewrite the lines and write the file.
ReorganizeWrite ==
    /\ pc = "reorganize_write"
    /\ disk' = new_lines(mem.content)
    /\ pc' = "idle"
    /\ mem' = NoMem
    /\ last' = Finished("reorganize", <<>>, <<>>, 0)
    /\ UNCHANGED <<backup, fs, prev, pre, preBackup, inserted, runs>>

(* -------------------------- auto_add_files.py --------------------------- *)

\* get_files_in_project, lines 33-41: the path of every PBXFileReference object.
get_files_in_project(content) ==
    {content[i].path : i \in {j \in DOMAIN content :
                                  content[j].k = "FR" /\ Len(content[j].path) > 0}}

RECURSIVE SelectFiles(_, _)
\* main, lines 114-119: the files whose base name and relative path are both
\* missing from existing_files, in the order of the scan.
SelectFiles(all_swift_files, existing_files) ==
    IF Len(all_swift_files) = 0 THEN <<>>
    ELSE LET swift_file == Head(all_swift_files)
             rest == SelectFiles(Tail(all_swift_files), existing_files)
         IN IF <<basename(swift_file)>> \notin existing_files
               /\ swift_file \notin existing_files
            THEN <<swift_file>> \o rest
            ELSE rest

\* Characters the manifest grammar takes unquoted: [A-Za-z0-9_./].
UnsupportedNames == {"PDFDocument+AcroForm.swift"}

SupportedPath(p) == \A i \in DOMAIN p : p[i] \notin UnsupportedNames

\* Every identifier the text holds.
IdsOf(content) ==
    {content[i].id : i \in {j \in DOMAIN content : content[j].k \in {"BF", "FR", "Mem", "Grp"}}}
        \cup {content[i].ref : i \in {j \in DOMAIN content : content[j].k = "BF"}}

\* The allocator: an identifier disjoint from the existing ones.
allocate(existing) ==
    CHOOSE n \in 1..(Cardinality(existing) + 1) :
        n \notin existing /\ \A m \in 1..(Cardinality(existing) + 1) : m \notin existing => n <= m

\* XcodeProject.load: every section marker present, each begin before its end.
parse_ok(content) ==
    /\ \A m \in Markers : Find(content, m, 1) # 0
    /\ Find(content, "BeginBF", 1) < Find(content, "EndBF", 1)
    /\ Find(content, "BeginFR", 1) < Find(content, "EndFR", 1)
    /\ Find(content, "BeginSrc", 1) < Find(content, "EndSrc", 1)

\* project.add_file for one supported file: its three entries, each in front
\* of its section's end marker.
add_file(content, file) ==
    LET ref == allocate(IdsOf(content))
        build == allocate(IdsOf(content) \cup {ref})
        name == basename(file)
        c1 == Insert(content, Find(content, "EndBF", 1), <<BuildFileEntry(build, ref, name)>>)
        c2 == Insert(c1, Find(c1, "EndFR", 1), <<FileRefEntry(ref, name, file, FALSE, 0, "tab")>>)
    IN Insert(c2, Find(c2, "EndSrc", 1), <<SourceEntry(build, name)>>)

RECURSIVE add_files_to_project(_, _)
\* add_files_to_project, lines 60-73: each file in turn; a file add_file
\* raises on is reported and skipped.
add_files_to_project(content, files) ==
    IF Len(files) = 0 THEN content
    ELSE LET c == add_files_to_project(content, SubSeq(files, 1, Len(files) - 1))
             f == files[Len(files)]
         IN IF SupportedPath(f) THEN add_file(c, f) ELSE c

\* main, lines 85-96: the backup is copied when none exists, before the scan.
AutoBackup ==
    /\ Begin
    /\ inserted' = {}
    /\ last' = Started("auto")
    /\ backup' = IF backup.exists THEN backup ELSE [exists |-> TRUE, text |-> disk]
    /\ pc' = "auto_scan"
    /\ UNCHANGED <<disk, fs, mem>>

\* main, lines 98-134, and add_files_to_project: scan, load, select; return
\* when nothing is new (121-123); else add every file and save.
AutoAdd ==
    /\ pc = "auto_scan"
    /\ pc' = "idle"
    /\ IF ~parse_ok(disk)
       THEN /\ last' = Finished("auto", <<>>, <<>>, 1)
            /\ UNCHANGED disk
       ELSE LET files_to_add == SelectFiles(fs, get_files_in_project(disk))
            IN /\ last' = Finished("auto", files_to_add, <<>>, 0)
               /\ disk' = IF Len(files_to_add) = 0 THEN disk
                          ELSE add_files_to_project(disk, files_to_add)
    /\ UNCHANGED <<backup, fs, mem, prev, pre, preBackup, inserted, runs>>

(* ------------------------ update_xcode_project.py ----------------------- *)

\* get_project_files_from_pbxproj, lines 25-43: of every line holding
\* '.swift' and 'path =', the text between 'path = ' and ';' without its
\* quotes, whatever record the line is.
get_project_files_from_pbxproj(content) ==
    {content[i].path : i \in {j \in DOMAIN content :
                                  content[j].k \in {"FR", "Grp"} /\ Len(content[j].path) > 0}}

RECURSIVE new_files(_, _)
\* main, lines 67-72: the files whose base name is not referenced.
new_files(swift_files, referenced) ==
    IF Len(swift_files) = 0 THEN <<>>
    ELSE LET file_path == Head(swift_files)
             rest == new_files(Tail(swift_files), referenced)
         IN IF <<basename(file_path)>> \notin referenced
            THEN <<file_path>> \o rest
            ELSE rest

\* One run of update_xcode_project.py, lines 45-93: scan, read the manifest,
\* report the new files; nothing is written.
Update ==
    /\ Begin
    /\ inserted' = {}
    /\ last' = Finished("update", new_files(fs, get_project_files_from_pbxproj(disk)), <<>>, 0)
    /\ UNCHANGED <<disk, backup, fs, pc, mem>>

(* ------------------------------ the system ------------------------------ *)

Init ==
    /\ disk \in Manifests
    /\ backup = NoBackup
    /\ fs \in FsLists
    /\ pc = "idle"
    /\ mem = NoMem
    /\ last = NoRun
    /\ prev = NoRun
    /\ pre = disk
    /\ preBackup = backup
    /\ inserted = {}
    /\ runs = 0

Next ==
    \/ AddFiles
    \/ Fix
    \/ FixWrite
    \/ Reorganize
    \/ ReorganizeWrite
    \/ AutoBackup
    \/ AutoAdd
    \/ Update

Spec == Init /\ [][Next]_vars

(* ------------------------------ the claims ------------------------------ *)

\* The latest run is a finished run of add_files_to_xcode.py that wrote the file.
AddDone == last.tool = "add" /\ last.done /\ last.exit = 0

\* Indices of the records that define an identifier.
Defining(content) == {i \in DOMAIN content : content[i].k \in {"BF", "FR", "Grp"}}

NoDuplicateIds(content) ==
    \A i, j \in Defining(content) : content[i].id = content[j].id => i = j

\* Index i lies between the first b marker and the first e marker.
InSection(content, b, e, i) ==
    /\ Find(content, b, 1) # 0
    /\ Find(content, b, 1) < i
    /\ i < Find(content, e, 1)

\* The entries of kind k the latest run inserted under display name name.
NewEntries(k, name) == {i \in inserted : disk[i].k = k /\ disk[i].name = name}

RECURSIVE Strip(_, _)
\* The text without the tokens at the indices P.
Strip(content, P) ==
    IF Len(content) = 0 THEN <<>>
    ELSE LET front == Strip(SubSeq(content, 1, Len(content) - 1), P)
         IN IF Len(content) \in P THEN front ELSE Append(front, content[Len(content)])

Count(content, k) == Cardinality({i \in DOMAIN content : content[i].k = k})

\* A required marker is missing, or a begin marker has no matching end marker
\* behind it.
Malformed(content) ==
    \E sec \in {<<"BeginBF", "EndBF">>, <<"BeginFR", "EndFR">>, <<"BeginSrc", "EndSrc">>} :
        \/ Find(content, sec[1], 1) = 0
        \/ Find(content, sec[2], 1) = 0
        \/ Find(content, sec[2], Find(content, sec[1], 1)) = 0

\* C1 (idempotence): a synchronizer run that follows a run of the same tool
\* on the same files, with the file system unchanged, leaves the manifest as
\* the earlier run left it, whatever the earlier run's exit code.
C1_Idempotence ==
    (/\ last.done /\ prev.done
     /\ last.tool \in {"add", "auto"}
     /\ prev.tool = last.tool
     /\ last.tool = "add" => prev.files = last.files)
    => disk = pre

\* C2 (uniqueness): after a run that inserted files no two records of the
\* manifest share an identifier, and the identifiers the run allocated differ
\* from those the manifest held before and from each other.
C2_Uniqueness ==
    (AddDone /\ Len(last.refs) > 0) =>
        /\ NoDuplicateIds(disk)
        /\ \A i \in DOMAIN last.refs :
              /\ last.refs[i].ref_uuid \notin IdsOf(pre)
              /\ last.refs[i].build_uuid \notin IdsOf(pre)
              /\ last.refs[i].ref_uuid # last.refs[i].build_uuid
              /\ \A j \in DOMAIN last.refs :
                    i # j => {last.refs[i].ref_uuid, last.refs[i].build_uuid}
                             \cap {last.refs[j].ref_uuid, last.refs[j].build_uuid} = {}

\* C3 (completeness): every file a run accepted has exactly one new file
\* reference inside the PBXFileReference section, one new build file inside
\* the PBXBuildFile section whose fileRef is that reference, and one new
\* membership entry inside the PBXSourcesBuildPhase section naming that build
\* file.
C3_Completeness ==
    AddDone =>
        \A r \in DOMAIN last.refs :
            LET name == last.refs[r].name
            IN /\ Cardinality(NewEntries("FR", name)) = 1
               /\ Cardinality(NewEntries("BF", name)) = 1
               /\ Cardinality(NewEntries("Mem", name)) = 1
               /\ \A i \in NewEntries("FR", name) : InSection(disk, "BeginFR", "EndFR", i)
               /\ \A i \in NewEntries("BF", name) :
                     /\ InSection(disk, "BeginBF", "EndBF", i)
                     /\ \A j \in NewEntries("FR", name) : disk[i].ref = disk[j].id
               /\ \A i \in NewEntries("Mem", name) :
                     /\ InSection(disk, "BeginSrc", "EndSrc", i)
                     /\ \A j \in NewEntries("BF", name) : disk[i].id = disk[j].id

\* C4 (non-destructiveness): the manifest a run of add_files_to_pbxproj wrote,
\* with the entries the run inserted taken out, is the manifest the run read;
\* what it inserted are entry lines only, three per file, and every section
\* marker occurs exactly once.
C4_NonDestructive ==
    AddDone =>
        /\ Strip(disk, inserted) = pre
        /\ Cardinality(inserted) = 3 * Len(last.refs)
        /\ \A i \in inserted : disk[i].k \in {"BF", "FR", "Mem"}
        /\ \A m \in Markers : Count(disk, m) = 1

\* A run inserted two files into a manifest that already held entries.
C4_Witness ==
    /\ AddDone
    /\ Len(last.refs) = 2
    /\ pre = ManifestModels
    /\ disk # pre

\* C5 (path rewrite exactness): a path rewrite changes nothing but the path
\* value of file references whose path was the old value: every other token,
\* and every other field of those, is as before.
C5_PathRewriteExact ==
    (last.tool \in {"fix", "reorganize"} /\ last.done) =>
        /\ Len(disk) = Len(pre)
        /\ \A i \in DOMAIN disk :
              disk[i] # pre[i] =>
                  /\ pre[i].k = "FR"
                  /\ \E m \in DOMAIN FILE_MAPPINGS :
                        /\ pre[i].path = <<FILE_MAPPINGS[m].old>>
                        /\ disk[i] = [pre[i] EXCEPT !.path = FILE_MAPPINGS[m].new]

\* C6 (backup precedes mutation): whenever a run has changed the manifest
\* file, a backup exists, and a backup the run created holds the text the
\* manifest had when the run started.
C6_BackupPrecedesMutation ==
    disk # pre =>
        /\ backup.exists
        /\ ~preBackup.exists => backup.text = pre

\* C7 (first-run-wins backup): once a backup exists no step changes it.
C7_FirstRunWins == [][backup.exists => backup' = backup]_vars

\* C8 (format errors abort): an insertion run on a manifest with a missing
\* marker, or a begin marker with no matching end marker behind it, exits
\* non-zero and leaves the manifest file as it was.
C8_FormatErrorsAbort ==
    (last.tool = "add" /\ last.done /\ Malformed(pre)) =>
        /\ last.exit = 1
        /\ disk = pre

\* The latest run found nothing to do: no untracked file, or no record to
\* rewrite.
NothingToDo ==
    /\ last.done
    /\ \/ /\ last.tool = "auto"
          /\ parse_ok(pre)
          /\ SelectFiles(fs, get_files_in_project(pre)) = <<>>
       \/ /\ last.tool = "fix"
          /\ \A m \in DOMAIN FILE_MAPPINGS : ~pattern_in(pre, FILE_MAPPINGS[m].old)
       \/ /\ last.tool = "reorganize"
          /\ \A i \in DOMAIN pre : \A j \in DOMAIN updates : ~key_in_line(updates[j], pre[i])

\* C9 (explicit no-op): a run that found nothing to do exits 0 and leaves the
\* manifest file and the backup file as they were.
C9_ExplicitNoOp ==
    NothingToDo =>
        /\ last.exit = 0
        /\ disk = pre
        /\ backup = preBackup

\* C10 (unsupported paths rejected): no entry is written for a file whose
\* path holds a character outside [A-Za-z0-9_./].
C10_UnsupportedRejected ==
    (last.tool = "add" /\ last.done) =>
        \A f \in DOMAIN last.files :
            ~SupportedPath(last.files[f]) =>
                \A i \in inserted :
                    disk[i].k \in {"BF", "FR", "Mem"} => disk[i].name # basename(last.files[f])

\* A file reference of the manifest has f's base name or f's relative path as
\* its path or as its display name.
Tracked(f, content) ==
    \E i \in DOMAIN content :
        /\ content[i].k = "FR"
        /\ {<<basename(f)>>, f} \cap {content[i].path, <<content[i].name>>} # {}

\* The files of a list, as a set.
Range(files) == {files[i] : i \in DOMAIN files}

\* C11 (tracked-set resolution): the files a resolving run reports as
\* untracked are exactly the files of the file system whose base name and
\* relative path both differ from the path and from the display name of
\* every file reference of the manifest the run read.
C11_TrackedSetResolution ==
    (last.done /\ last.tool \in {"auto", "update"} /\ last.exit = 0) =>
        Range(last.files) = {f \in Range(fs) : ~Tracked(f, pre)}

====
